---- MODULE Spec2Model ----
(***************************************************************************)
(* Model of the Inspection Photo Duplicate Checker (src/app.py): the       *)
(* Streamlit session (uploader key, batch list, accumulated file list),    *)
(* the upload / undo / reset reruns, and the Run Duplicate Check handler   *)
(* (validation, byte caching, photo extraction with the size filter and    *)
(* the MD5 fingerprint, duplicate grouping and report clustering).         *)
(***************************************************************************)
EXTENDS Integers, Sequences, FiniteSets

(* ------------------------------------------------------------------ *)
(* Bounds of the model                                                 *)
(* ------------------------------------------------------------------ *)

\* Number of uploaded-file objects that can be alive in a session.
MaxFiles == 3

\* Cap on the uploader_key counter (it counts Undo and Reset clicks).
MaxKey == 2

\* Number of files the user can add to the uploader widget at once.
MaxBatch == 2

(* ------------------------------------------------------------------ *)
(* Program constants                                                   *)
(* ------------------------------------------------------------------ *)

\* `if w >= 300 and h >= 150`
MinWidth == 300
MinHeight == 150

(* ------------------------------------------------------------------ *)
(* The input universe: embedded images, documents, file names          *)
(* ------------------------------------------------------------------ *)

\* An embedded image is identified by its raw encoded bytes; ImgWidth and
\* ImgHeight give the pixel size PIL reads from these bytes.  Images 1..4
\* pass the size filter (1 sits exactly on both thresholds), 5 is too
\* narrow, 6 is too low, 7 fails both.
ImgWidth == <<300, 640, 800, 1024, 299, 300, 120>>
ImgHeight == <<150, 480, 600, 768, 150, 149, 90>>
Images == DOMAIN ImgWidth

\* The digest of each image's bytes.  Distinct byte strings get distinct
\* digests; the digests are ordered as their hex strings are, and that
\* order is unrelated to the order of the image ids.
Digest == <<40, 10, 30, 20, 70, 50, 60>>

\* hashlib.md5(img_bytes).hexdigest()
md5(img_bytes) == Digest[img_bytes]

\* The bytes of a PDF: either bytes fitz cannot open, or a sequence of
\* pages, each a sequence of embedded images in discovery order.
Corrupt == [kind |-> "garbage", pages |-> <<>>]
Pdf(pages) == [kind |-> "pdf", pages |-> pages]

\* The empty byte string b"", which is what read() returns at end of file.
EmptyBytes == [kind |-> "empty", pages |-> <<>>]

\* A file the user can pick in the upload dialog: a name and its bytes.
File(name, data) == [name |-> name, data |-> data]

\* The files the user can pick from.  Two of them carry the same name, and
\* any of them can be uploaded more than once.
Disk ==
  { File("a.pdf", Pdf(<< <<2>>, <<3>>, <<2>> >>)),  \* photo 2 on pages 0 and 2, photo 3
    File("b.pdf", Pdf(<< <<4, 3>>, <<1>> >>)),      \* photos 4 and 3, then photo 1
    File("c.pdf", Pdf(<< <<5>>, <<4, 6>> >>)),      \* photo 4 and two small images
    File("d.pdf", Pdf(<< <<7, 5>>, <<5>> >>)),      \* small images only, one twice
    File("d.pdf", Corrupt) }                        \* not a PDF

FileIds == 1 .. MaxFiles

(* ------------------------------------------------------------------ *)
(* State                                                               *)
(* ------------------------------------------------------------------ *)

VARIABLES
  uploader_key,   \* st.session_state["uploader_key"]
  batches,        \* st.session_state["batches"]: list of lists of file objects
  all_files,      \* st.session_state["all_files"]: list of file objects
  uploaded_files, \* what the file_uploader widget returns on a rerun
  files,          \* the live UploadedFile objects: id -> [name, data, pos]
  pc,             \* where the Run Duplicate Check handler stands
  message,        \* the st.error / st.success message of the run
  pdf_cache,      \* name -> bytes read from the file object
  calls,          \* number of extract_photos calls made by the run
  all_photos,     \* the photo records extracted so far
  duplicates,     \* the rows of df whose md5 occurs more than once, by md5
  report_groups,  \* the list of sets of file names built by merge_group
  done_keys,      \* number of md5 groups the rendering loop has handled
  prev,           \* the result of the run that was on screen when Run was clicked
  empty_open      \* what the installed PyMuPDF does with fitz.open(stream=b"")

vars == <<uploader_key, batches, all_files, uploaded_files, files, pc, message,
          pdf_cache, calls, all_photos, duplicates, report_groups, done_keys, prev,
          empty_open>>

(* ------------------------------------------------------------------ *)
(* Helpers on lists                                                    *)
(* ------------------------------------------------------------------ *)

Range(s) == { s[i] : i \in DOMAIN s }

\* [x for x in s if x in wanted]
RECURSIVE Filter(_, _)
Filter(s, wanted) ==
  IF s = <<>> THEN <<>>
  ELSE IF Head(s) \in wanted THEN <<Head(s)>> \o Filter(Tail(s), wanted)
       ELSE Filter(Tail(s), wanted)

\* list.remove(x): drops the first element equal to x.
RECURSIVE Remove(_, _)
Remove(s, x) ==
  IF s = <<>> THEN <<>>
  ELSE IF Head(s) = x THEN Tail(s)
       ELSE <<Head(s)>> \o Remove(Tail(s), x)

\* for f in last: all_files.remove(f)
RECURSIVE RemoveAll(_, _)
RemoveAll(s, last) ==
  IF last = <<>> THEN s ELSE RemoveAll(Remove(s, Head(last)), Tail(last))

\* The concatenation of a list of lists.
RECURSIVE Flatten(_)
Flatten(ss) == IF ss = <<>> THEN <<>> ELSE Head(ss) \o Flatten(Tail(ss))

(* ------------------------------------------------------------------ *)
(* Session: initial state, batch detection, upload, undo, reset        *)
(* ------------------------------------------------------------------ *)

NoRun ==
  /\ pc' = "idle"
  /\ message' = ""
  /\ pdf_cache' = <<>>
  /\ calls' = 0
  /\ all_photos' = <<>>
  /\ duplicates' = <<>>
  /\ report_groups' = <<>>
  /\ done_keys' = 0

NoResult == [pc |-> "none"]

Init ==
  /\ uploader_key = 0
  /\ batches = <<>>
  /\ all_files = <<>>
  /\ uploaded_files = <<>>
  /\ files = <<>>
  /\ pc = "idle"
  /\ message = ""
  /\ pdf_cache = <<>>
  /\ calls = 0
  /\ all_photos = <<>>
  /\ duplicates = <<>>
  /\ report_groups = <<>>
  /\ done_keys = 0
  /\ prev = NoResult
  /\ empty_open \in {"raises", "new document"}

\* The script is not in the middle of a run: a click or an upload starts a
\* rerun from the top.
AtRest == pc \in {"idle", "rejected", "crashed", "done"}

\* Batch detection without the membership test: every file the widget
\* returns counts as new.
new_files_unfiltered(widget, all) == widget

\* new_files = [f for f in uploaded_files if f not in all_files]
new_files(widget, all) == Filter(widget, Range(widget) \ Range(all))

\* Batch Detection: a non-empty list of new files becomes a batch and is
\* appended to the accumulated list.
BatchesAfterDetection(widget, bs, all) ==
  IF widget # <<>> /\ new_files(widget, all) # <<>>
  THEN Append(bs, new_files(widget, all)) ELSE bs

AllFilesAfterDetection(widget, all) ==
  IF widget # <<>> /\ new_files(widget, all) # <<>>
  THEN all \o new_files(widget, all) ELSE all

\* The objects still referenced by the session or the widget.
Live(fs, all, widget) == [f \in (Range(all) \cup Range(widget)) |-> fs[f]]

\* The k smallest ids of `free`, ascending: the identities of k new objects.
RECURSIVE NewIds(_, _)
NewIds(free, k) ==
  IF k = 0 \/ free = {} THEN <<>>
  ELSE LET m == CHOOSE x \in free : \A y \in free : x <= y
       IN <<m>> \o NewIds(free \ {m}, k - 1)

\* The user adds files to the uploader widget; the script reruns and
\* reaches Batch Detection.  No button is clicked, so no run is shown.
Upload ==
  /\ AtRest
  /\ \E k \in 1 .. MaxBatch :
       LET added == NewIds(FileIds \ DOMAIN files, k) IN
       /\ Len(added) = k
       /\ \E picked \in [Range(added) -> Disk] :
            LET widget == uploaded_files \o added
                fs == [f \in DOMAIN files \cup Range(added) |->
                         IF f \in DOMAIN files THEN files[f]
                         ELSE [name |-> picked[f].name, data |-> picked[f].data,
                               pos |-> "start"]]
            IN /\ uploaded_files' = widget
               /\ files' = fs
               /\ batches' = BatchesAfterDetection(widget, batches, all_files)
               /\ all_files' = AllFilesAfterDetection(widget, all_files)
  /\ NoRun
  /\ prev' = NoResult
  /\ UNCHANGED <<uploader_key, empty_open>>

\* Undo Last Batch is clicked: the rerun passes Batch Detection, pops the
\* last batch, removes its files from the accumulated list, bumps the
\* uploader key and reruns, which shows a fresh, empty uploader widget.
UndoLastBatch ==
  /\ AtRest
  /\ uploader_key < MaxKey
  /\ LET bs  == BatchesAfterDetection(uploaded_files, batches, all_files)
         all == AllFilesAfterDetection(uploaded_files, all_files)
     IN /\ bs # <<>>
        /\ LET last == bs[Len(bs)] IN
           /\ batches' = SubSeq(bs, 1, Len(bs) - 1)
           /\ all_files' = RemoveAll(all, last)
           /\ files' = Live(files, RemoveAll(all, last), <<>>)
  /\ uploader_key' = uploader_key + 1
  /\ uploaded_files' = <<>>
  /\ NoRun
  /\ prev' = NoResult
  /\ UNCHANGED empty_open

\* Reset App is clicked: every session key but uploader_key is deleted,
\* the key is bumped, and the rerun re-creates the two lists empty.
ResetApp ==
  /\ AtRest
  /\ uploader_key < MaxKey
  /\ uploader_key' = uploader_key + 1
  /\ batches' = <<>>
  /\ all_files' = <<>>
  /\ uploaded_files' = <<>>
  /\ files' = <<>>
  /\ NoRun
  /\ prev' = NoResult
  /\ UNCHANGED empty_open

(* ------------------------------------------------------------------ *)
(* Extract Photos                                                      *)
(* ------------------------------------------------------------------ *)

\* The size test with `or` for `and`.
keep_either(w, h) == w >= MinWidth \/ h >= MinHeight

\* if w >= 300 and h >= 150
keep(w, h) == w >= MinWidth /\ h >= MinHeight

\* The inner loop of extract_photos: the records of one page.
RECURSIVE PagePhotos(_, _, _)
PagePhotos(pdf_name, page_idx, imgs) ==
  IF imgs = <<>> THEN <<>>
  ELSE LET img_bytes == Head(imgs)
           rest == PagePhotos(pdf_name, page_idx, Tail(imgs))
       IN IF keep(ImgWidth[img_bytes], ImgHeight[img_bytes])
          THEN << [file |-> pdf_name, page |-> page_idx,
                   md5 |-> md5(img_bytes), image |-> img_bytes] >> \o rest
          ELSE rest

\* The outer loop of extract_photos, from page page_idx on.
RECURSIVE PagesPhotos(_, _, _)
PagesPhotos(pdf_name, pages, page_idx) ==
  IF pages = <<>> THEN <<>>
  ELSE PagePhotos(pdf_name, page_idx, Head(pages))
       \o PagesPhotos(pdf_name, Tail(pages), page_idx + 1)

\* extract_photos(pdf_name, pdf_bytes) for bytes fitz can open.
extract_photos(pdf_name, pdf_bytes) == PagesPhotos(pdf_name, pdf_bytes.pages, 0)

\* f.read() on a BytesIO: the bytes from the position to the end.
read(f) == IF f.pos = "start" THEN f.data ELSE EmptyBytes

(* ------------------------------------------------------------------ *)
(* Run Duplicate Check                                                 *)
(* ------------------------------------------------------------------ *)

\* filenames = [f.name for f in all_files]
filenames(fs, all) == [i \in DOMAIN all |-> fs[all[i]].name]

\* The filename check with the count compared to 2 instead of 1.
duplicated_filenames_above_two(names) ==
  { names[i] : i \in { j \in DOMAIN names :
                         Cardinality({ k \in DOMAIN names : names[k] = names[j] }) > 2 } }

\* {name for name in filenames if filenames.count(name) > 1}
duplicated_filenames(names) ==
  { names[i] : i \in { j \in DOMAIN names :
                         Cardinality({ k \in DOMAIN names : names[k] = names[j] }) > 1 } }

\* What the run shows, as kept for comparison with the next run.
Result ==
  [pc |-> pc, message |-> message, all_photos |-> all_photos,
   duplicates |-> duplicates, report_groups |-> report_groups]

\* Run Duplicate Check is clicked: the rerun passes Batch Detection, then
\* validates the accumulated files and, if they are valid, reads every
\* file into pdf_cache.
RunClick ==
  /\ AtRest
  /\ LET bs  == BatchesAfterDetection(uploaded_files, batches, all_files)
         all == AllFilesAfterDetection(uploaded_files, all_files)
     IN /\ batches' = bs
        /\ all_files' = all
        /\ prev' = IF pc = "idle" THEN NoResult ELSE Result
        /\ calls' = 0
        /\ all_photos' = <<>>
        /\ duplicates' = <<>>
        /\ report_groups' = <<>>
        /\ done_keys' = 0
        /\ IF all = <<>>
           THEN /\ pc' = "rejected"
                /\ message' = "Please upload files first."
                /\ pdf_cache' = <<>>
                /\ UNCHANGED files
           ELSE IF duplicated_filenames(filenames(files, all)) # {}
           THEN /\ pc' = "rejected"
                /\ message' = "Duplicate PDF filenames detected!"
                /\ pdf_cache' = <<>>
                /\ UNCHANGED files
           ELSE /\ pc' = "extract"
                /\ message' = "Extracting inspection photos..."
                /\ pdf_cache' =
                     [n \in Range(filenames(files, all)) |->
                        read(files[CHOOSE f \in Range(all) : files[f].name = n])]
                /\ files' = [f \in DOMAIN files |->
                               IF f \in Range(all)
                               THEN [files[f] EXCEPT !.pos = "end"] ELSE files[f]]
  /\ UNCHANGED <<uploader_key, uploaded_files, empty_open>>

\* The extraction loop calls extract_photos on the next file, whose cached
\* bytes fitz opens: the records of the file are appended.
ExtractNext ==
  /\ pc = "extract"
  /\ calls < Len(all_files)
  /\ LET pdf == files[all_files[calls + 1]] IN
     /\ pdf_cache[pdf.name].kind = "pdf"
     /\ all_photos' = all_photos \o extract_photos(pdf.name, pdf_cache[pdf.name])
  /\ calls' = calls + 1
  /\ UNCHANGED <<uploader_key, batches, all_files, uploaded_files, files, pc,
                 message, pdf_cache, duplicates, report_groups, done_keys, prev,
                 empty_open>>

\* fitz.open raises on bytes that are no PDF (and, in recent PyMuPDF
\* versions, on the empty byte string): nothing catches the exception, the
\* script run ends with it and nothing more is rendered.
ExtractRaises ==
  /\ pc = "extract"
  /\ calls < Len(all_files)
  /\ LET pdf_bytes == pdf_cache[files[all_files[calls + 1]].name] IN
       \/ pdf_bytes.kind = "garbage"
       \/ pdf_bytes.kind = "empty" /\ empty_open = "raises"
  /\ calls' = calls + 1
  /\ pc' = "crashed"
  /\ message' = "exception"
  /\ UNCHANGED <<uploader_key, batches, all_files, uploaded_files, files,
                 pdf_cache, all_photos, duplicates, report_groups, done_keys, prev,
                 empty_open>>

\* The other outcome of fitz.open on the empty byte string: older PyMuPDF
\* versions take it for "no stream" and return a new document of no pages.
ExtractEmpty ==
  /\ pc = "extract"
  /\ calls < Len(all_files)
  /\ pdf_cache[files[all_files[calls + 1]].name].kind = "empty"
  /\ empty_open = "new document"
  /\ calls' = calls + 1
  /\ UNCHANGED <<uploader_key, batches, all_files, uploaded_files, files, pc,
                 message, pdf_cache, all_photos, duplicates, report_groups,
                 done_keys, prev,
                 empty_open>>

(* ------------------------------------------------------------------ *)
(* Duplicate grouping                                                  *)
(* ------------------------------------------------------------------ *)

\* df = pd.DataFrame(all_photos): the records with their row labels 0, 1, ...
DataFrame(photos) ==
  [i \in DOMAIN photos |->
     [idx |-> i - 1, file |-> photos[i].file, page |-> photos[i].page,
      md5 |-> photos[i].md5, image |-> photos[i].image]]

\* df.duplicated("md5") with its default keep="first": the first row of each
\* md5 is not marked.
duplicated_keep_first(df) ==
  { i \in DOMAIN df : \E j \in DOMAIN df : j < i /\ df[j].md5 = df[i].md5 }

\* df.duplicated("md5", keep=False): the rows whose md5 another row has too.
duplicated(df) ==
  { i \in DOMAIN df : \E j \in DOMAIN df : j # i /\ df[j].md5 = df[i].md5 }

\* sort_values("md5") of a set of rows: ascending md5, rows of one md5 in
\* row order.
RECURSIVE sort_values(_)
sort_values(rows) ==
  IF rows = {} THEN <<>>
  ELSE LET first == CHOOSE r \in rows : \A q \in rows :
                      \/ r.md5 < q.md5
                      \/ r.md5 = q.md5 /\ r.idx <= q.idx
       IN <<first>> \o sort_values(rows \ {first})

\* duplicates = df[df.duplicated("md5", keep=False)].sort_values("md5")
Duplicates(photos) ==
  LET df == DataFrame(photos) IN sort_values({ df[i] : i \in duplicated(df) })

\* The keys duplicates.groupby("md5") iterates over, ascending.
RECURSIVE Ascending(_)
Ascending(S) ==
  IF S = {} THEN <<>>
  ELSE LET m == CHOOSE x \in S : \A y \in S : x <= y
       IN <<m>> \o Ascending(S \ {m})

groupby_keys(dup) == Ascending({ dup[i].md5 : i \in DOMAIN dup })

\* The group of one key: the rows of duplicates with that md5, in order.
RECURSIVE groupby_group(_, _)
groupby_group(dup, md5_hash) ==
  IF dup = <<>> THEN <<>>
  ELSE IF Head(dup).md5 = md5_hash
       THEN <<Head(dup)>> \o groupby_group(Tail(dup), md5_hash)
       ELSE groupby_group(Tail(dup), md5_hash)

\* The extraction loop is over: the frame is built and the run either
\* stops with one of the two success messages or starts rendering.
BuildFrame ==
  /\ pc = "extract"
  /\ calls = Len(all_files)
  /\ IF all_photos = <<>>
     THEN /\ message' = "No inspection photos found."
          /\ pc' = "done"
          /\ duplicates' = <<>>
     ELSE /\ duplicates' = Duplicates(all_photos)
          /\ IF Duplicates(all_photos) = <<>>
             THEN /\ message' = "No duplicates detected."
                  /\ pc' = "done"
             ELSE /\ message' = "Duplicate inspection photos detected."
                  /\ pc' = "cluster"
  /\ UNCHANGED <<uploader_key, batches, all_files, uploaded_files, files,
                 pdf_cache, calls, all_photos, report_groups, done_keys, prev,
                 empty_open>>

(* ------------------------------------------------------------------ *)
(* Report grouping                                                     *)
(* ------------------------------------------------------------------ *)

\* merge_group that starts no group for a set of a single file.
merge_group_pairs_only(groups, new_set) ==
  LET hits == { i \in DOMAIN groups : groups[i] \cap new_set # {} } IN
  IF hits # {}
  THEN LET i == CHOOSE x \in hits : \A y \in hits : x <= y
       IN [groups EXCEPT ![i] = groups[i] \cup new_set]
  ELSE IF Cardinality(new_set) > 1 THEN Append(groups, new_set) ELSE groups

\* merge_group(new_set) on the list report_groups: the first group that
\* meets new_set takes its members; if none does, new_set is a new group.
merge_group(groups, new_set) ==
  LET hits == { i \in DOMAIN groups : groups[i] \cap new_set # {} } IN
  IF hits # {}
  THEN LET i == CHOOSE x \in hits : \A y \in hits : x <= y
       IN [groups EXCEPT ![i] = groups[i] \cup new_set]
  ELSE Append(groups, new_set)

\* files = set(group["file"].unique())
group_files(group) == { group[i].file : i \in DOMAIN group }

\* One pass of the rendering loop over duplicates.groupby("md5").
RenderCard ==
  /\ pc = "cluster"
  /\ done_keys < Len(groupby_keys(duplicates))
  /\ LET md5_hash == groupby_keys(duplicates)[done_keys + 1]
         group == groupby_group(duplicates, md5_hash)
     IN report_groups' = merge_group(report_groups, group_files(group))
  /\ done_keys' = done_keys + 1
  /\ UNCHANGED <<uploader_key, batches, all_files, uploaded_files, files, pc,
                 message, pdf_cache, calls, all_photos, duplicates, prev, empty_open>>

\* The loop is over: the summary and the PDF report are rendered from
\* report_groups and duplicates, and the script ends.
RenderSummary ==
  /\ pc = "cluster"
  /\ done_keys = Len(groupby_keys(duplicates))
  /\ pc' = "done"
  /\ UNCHANGED <<uploader_key, batches, all_files, uploaded_files, files,
                 message, pdf_cache, calls, all_photos, duplicates,
                 report_groups, done_keys, prev,
                 empty_open>>

(* ------------------------------------------------------------------ *)
(* Specification                                                       *)
(* ------------------------------------------------------------------ *)

Next ==
  \/ Upload
  \/ UndoLastBatch
  \/ ResetApp
  \/ RunClick
  \/ ExtractNext
  \/ ExtractRaises
  \/ ExtractEmpty
  \/ BuildFrame
  \/ RenderCard
  \/ RenderSummary

Spec == Init /\ [][Next]_vars

(* ------------------------------------------------------------------ *)
(* Vocabulary of the properties                                        *)
(* ------------------------------------------------------------------ *)

Digests == { Digest[i] : i \in Images }

\* The names of the accumulated files.
DocumentNames == { files[f].name : f \in Range(all_files) }

\* The accumulated file list is an invalid input of a run.
InvalidInput ==
  \/ all_files = <<>>
  \/ \E i, j \in DOMAIN all_files :
       i # j /\ files[all_files[i]].name = files[all_files[j]].name

\* The DuplicateSet of a fingerprint: the rows the rendering loop gets for it.
DuplicateSet(h) == groupby_group(duplicates, h)

\* The positions in the photo record store of the records with fingerprint h.
Carriers(h) == { i \in DOMAIN all_photos : all_photos[i].md5 = h }

\* The documents named by the records of the DuplicateSet of h.
SetDocuments(h) == { DuplicateSet(h)[k].file : k \in DOMAIN DuplicateSet(h) }

\* Documents x and y occur together in some DuplicateSet.
CoOccur(x, y) == \E h \in Digests : x \in SetDocuments(h) /\ y \in SetDocuments(h)

\* The documents that appear in at least one DuplicateSet.
DuplicatedDocuments == { duplicates[k].file : k \in DOMAIN duplicates }

\* The run went through validation and is over, with a result or an exception.
RunOver == pc \in {"done", "crashed"}

\* The run rendered the report groups of a non-empty duplicate list.
Clustered == pc = "done" /\ duplicates # <<>>

(* ------------------------------------------------------------------ *)
(* C1: transitive grouping                                             *)
(* ------------------------------------------------------------------ *)

\* C1: once the run has rendered its groups, whenever document x occurs with
\* y in a DuplicateSet and y occurs with z in a DuplicateSet, one and the
\* same report group contains x, y and z.
C1_TransitiveGroups ==
  Clustered =>
    \A x, y, z \in DocumentNames :
      CoOccur(x, y) /\ CoOccur(y, z) =>
        \E g \in DOMAIN report_groups : {x, y, z} \subseteq report_groups[g]

(* ------------------------------------------------------------------ *)
(* C2: the report groups are a partition                               *)
(* ------------------------------------------------------------------ *)

\* C2: after the clustering loop, distinct report groups are disjoint, their
\* union is exactly the set of documents that appear in a DuplicateSet, and
\* a document with no duplicated photo is in no group.
C2_GroupsPartition ==
  Clustered =>
    /\ \A g, k \in DOMAIN report_groups :
         g # k => report_groups[g] \cap report_groups[k] = {}
    /\ UNION Range(report_groups) = DuplicatedDocuments
    /\ \A x \in DocumentNames \ DuplicatedDocuments :
         \A g \in DOMAIN report_groups : x \notin report_groups[g]

(* ------------------------------------------------------------------ *)
(* C3: an invalid input is rejected before any processing              *)
(* ------------------------------------------------------------------ *)

NothingProcessed ==
  /\ calls = 0
  /\ pdf_cache = <<>>
  /\ all_photos = <<>>
  /\ duplicates = <<>>
  /\ report_groups = <<>>

\* C3: a click on Run Duplicate Check with no accumulated file, or with two
\* accumulated files of one name, ends rejected with an error message; no
\* file is read, extract_photos is not called, and no record, DuplicateSet
\* or report group exists, in the rejected state and until the next rerun.
C3_InvalidRejected ==
  /\ [](pc = "rejected" =>
          /\ InvalidInput
          /\ NothingProcessed
          /\ message \in {"Please upload files first.",
                          "Duplicate PDF filenames detected!"})
  /\ [][ /\ (AtRest /\ pc' # "idle" /\ InvalidInput') =>
              (pc' = "rejected" /\ files' = files)
         /\ pc = "rejected" => pc' \in {"idle", "rejected"} ]_vars

\* A run was rejected for two files of one name, none of which was read.
C3_Witness ==
  /\ pc = "rejected"
  /\ Len(all_files) >= 2
  /\ message = "Duplicate PDF filenames detected!"
  /\ \A f \in Range(all_files) : files[f].pos = "start"

(* ------------------------------------------------------------------ *)
(* C4: a second run on the same files                                  *)
(* ------------------------------------------------------------------ *)

\* C4: when a run ends that was started with the result of a run on the same
\* accumulated files on screen, its photo records, DuplicateSets and report
\* groups are those of that earlier run.
C4_RerunIdentical ==
  (pc \in {"done", "crashed", "rejected"} /\ prev # NoResult) =>
    /\ all_photos = prev.all_photos
    /\ duplicates = prev.duplicates
    /\ report_groups = prev.report_groups

(* ------------------------------------------------------------------ *)
(* C5: DuplicateSets                                                   *)
(* ------------------------------------------------------------------ *)

\* C5: once the frame is built, a fingerprint has a DuplicateSet exactly when
\* at least two records carry it; the set holds each record with that
\* fingerprint once and no other record; the loop visits each fingerprint
\* once, and every row of duplicates lies in the set of its fingerprint.
C5_DuplicateSets ==
  pc \in {"cluster", "done"} =>
    /\ \A h \in Digests :
         LET set == DuplicateSet(h) IN
         /\ set # <<>> <=> Cardinality(Carriers(h)) >= 2
         /\ set # <<>> <=> \E k \in DOMAIN groupby_keys(duplicates) :
                             groupby_keys(duplicates)[k] = h
         /\ set # <<>> =>
              /\ { set[k].idx + 1 : k \in DOMAIN set } = Carriers(h)
              /\ Len(set) = Cardinality(Carriers(h))
              /\ \A k \in DOMAIN set :
                   /\ set[k].md5 = h
                   /\ set[k].file = all_photos[set[k].idx + 1].file
                   /\ set[k].page = all_photos[set[k].idx + 1].page
    /\ \A k, m \in DOMAIN groupby_keys(duplicates) :
         k # m => groupby_keys(duplicates)[k] # groupby_keys(duplicates)[m]
    /\ \A k \in DOMAIN duplicates :
         \E m \in DOMAIN DuplicateSet(duplicates[k].md5) :
           DuplicateSet(duplicates[k].md5)[m] = duplicates[k]
    /\ \A k, m \in DOMAIN duplicates : k # m => duplicates[k].idx # duplicates[m].idx

\* A fingerprint carried by records of two documents on different pages has
\* its DuplicateSet, while another fingerprint is carried by one record only.
C5_Witness ==
  /\ pc \in {"cluster", "done"}
  /\ \E h \in Digests :
       /\ Len(DuplicateSet(h)) = 2
       /\ DuplicateSet(h)[1].file # DuplicateSet(h)[2].file
       /\ DuplicateSet(h)[1].page # DuplicateSet(h)[2].page
  /\ \E h \in Digests : Cardinality(Carriers(h)) = 1

(* ------------------------------------------------------------------ *)
(* C6: the three outcomes of a validated run                           *)
(* ------------------------------------------------------------------ *)

SharedFingerprint ==
  \E i, j \in DOMAIN all_photos : i # j /\ all_photos[i].md5 = all_photos[j].md5

\* C6: a run that passed validation and is over shows one of the three
\* messages: "No inspection photos found." exactly when no record was
\* extracted, "No duplicates detected." exactly when there are records and no
\* two share a fingerprint, "Duplicate inspection photos detected." otherwise.
C6_ThreeOutcomes ==
  RunOver =>
    /\ message \in {"No inspection photos found.", "No duplicates detected.",
                    "Duplicate inspection photos detected."}
    /\ message = "No inspection photos found." <=> all_photos = <<>>
    /\ message = "No duplicates detected." <=>
         (all_photos # <<>> /\ ~SharedFingerprint)
    /\ message = "Duplicate inspection photos detected." <=> SharedFingerprint

(* ------------------------------------------------------------------ *)
(* C7: a document that cannot be opened                                *)
(* ------------------------------------------------------------------ *)

\* The records extract_photos yields for the accumulated file at position i.
RecordsOf(i) ==
  extract_photos(files[all_files[i]].name, files[all_files[i]].data)

\* C7: when a run is over in which the bytes read for some document were no
\* PDF, the run was not aborted: it is done, extract_photos was called for
\* every document, and the records of every document that does parse are in
\* the photo record store.
C7_SkipUnparsable ==
  (RunOver /\ \E n \in DOMAIN pdf_cache : pdf_cache[n].kind = "garbage") =>
    /\ pc = "done"
    /\ calls = Len(all_files)
    /\ \A i \in DOMAIN all_files :
         pdf_cache[files[all_files[i]].name].kind = "pdf" =>
           \A k \in DOMAIN RecordsOf(i) :
             \E m \in DOMAIN all_photos : all_photos[m] = RecordsOf(i)[k]

(* ------------------------------------------------------------------ *)
(* C8: a document with an internal duplicate only                      *)
(* ------------------------------------------------------------------ *)

\* Document x has two records of one fingerprint.
InternalDuplicate(x) ==
  \E i, j \in DOMAIN all_photos :
    /\ i # j
    /\ all_photos[i].file = x /\ all_photos[j].file = x
    /\ all_photos[i].md5 = all_photos[j].md5

\* Document x has a record whose fingerprint a record of another document has.
SharesWithOther(x) ==
  \E i, j \in DOMAIN all_photos :
    /\ all_photos[i].file = x /\ all_photos[j].file # x
    /\ all_photos[i].md5 = all_photos[j].md5

\* C8: in the result of a run, a document whose extracted photos include the
\* same photo twice and no photo of another document has a DuplicateSet whose
\* records all name it, and is the only member of exactly one report group
\* and a member of no other; a document none of whose photos is duplicated
\* is in no report group.
C8_InternalDuplicate ==
  pc = "done" =>
    \A x \in DocumentNames :
      /\ (InternalDuplicate(x) /\ ~SharesWithOther(x)) =>
           /\ \E h \in Digests : SetDocuments(h) = {x}
           /\ Cardinality({ g \in DOMAIN report_groups : x \in report_groups[g] }) = 1
           /\ \E g \in DOMAIN report_groups : report_groups[g] = {x}
      /\ (~InternalDuplicate(x) /\ ~SharesWithOther(x)) =>
           \A g \in DOMAIN report_groups : x \notin report_groups[g]

\* A run ended with a document alone in its group by an internal duplicate,
\* next to a document that has photos but is in no group.
C8_Witness ==
  /\ pc = "done"
  /\ \E x, y \in DocumentNames :
       /\ x # y
       /\ InternalDuplicate(x) /\ ~SharesWithOther(x)
       /\ \E g \in DOMAIN report_groups : report_groups[g] = {x}
       /\ \E i \in DOMAIN all_photos : all_photos[i].file = y
       /\ \A g \in DOMAIN report_groups : y \notin report_groups[g]

(* ------------------------------------------------------------------ *)
(* C9: the size filter                                                 *)
(* ------------------------------------------------------------------ *)

TooSmall(img) == ImgWidth[img] < 300 \/ ImgHeight[img] < 150

\* C9: in every state, no record of the photo record store and no row of a
\* DuplicateSet is of an image narrower than 300 or lower than 150, and
\* every member of a report group is there by a row of duplicates of an
\* image that is not too small.
C9_SmallImagesDropped ==
  /\ \A i \in DOMAIN all_photos : ~TooSmall(all_photos[i].image)
  /\ \A k \in DOMAIN duplicates : ~TooSmall(duplicates[k].image)
  /\ \A g \in DOMAIN report_groups : \A x \in report_groups[g] :
       \E k \in DOMAIN duplicates :
         duplicates[k].file = x /\ ~TooSmall(duplicates[k].image)

\* The images embedded in the bytes of a document.
ImagesIn(data) == UNION { Range(data.pages[p]) : p \in DOMAIN data.pages }

\* A run is done on documents two of which embed the same too-small image,
\* read from the start, and records of other images were extracted.
C9_Witness ==
  /\ pc = "done"
  /\ all_photos # <<>>
  /\ \E n1, n2 \in DOMAIN pdf_cache :
       /\ n1 # n2
       /\ \E img \in ImagesIn(pdf_cache[n1]) \cap ImagesIn(pdf_cache[n2]) :
            TooSmall(img)

(* ------------------------------------------------------------------ *)
(* C10: the batch list and the accumulated file list                   *)
(* ------------------------------------------------------------------ *)

SessionListsAgree ==
  /\ all_files = Flatten(batches)
  /\ \A b \in DOMAIN batches : batches[b] # <<>>
  /\ \A i, j \in DOMAIN all_files : i # j => all_files[i] # all_files[j]

\* C10: in every state the accumulated file list is the concatenation of the
\* batches, no batch is empty and no file object occurs twice; Undo Last
\* Batch drops the last batch and exactly its files, leaving the earlier
\* batches and files as they were; Reset App leaves both lists empty.
C10_SessionLists ==
  /\ []SessionListsAgree
  /\ [][ /\ UndoLastBatch =>
              /\ batches # <<>>
              /\ batches' = SubSeq(batches, 1, Len(batches) - 1)
              /\ all_files' = SubSeq(all_files, 1,
                                     Len(all_files) - Len(batches[Len(batches)]))
         /\ ResetApp => (batches' = <<>> /\ all_files' = <<>>) ]_vars

\* After an undo or a reset, two batches were uploaded again, the first of
\* two files.
C10_Witness ==
  /\ uploader_key >= 1
  /\ Len(batches) >= 2
  /\ Len(batches[1]) = 2

====
